---- MODULE Spec2Model ----
(***************************************************************************)
(* A model of AssignmentsSync (src/assignments_sync.js): one process run   *)
(* of syncWithCalendar against a Row Store (a spreadsheet range A2:I) and  *)
(* an Event Store (a calendar), with the Retry Governor retryWithBackoff   *)
(* around the remote calls, and another actor who edits the Row Store.     *)
(***************************************************************************)
EXTENDS Integers, Sequences, FiniteSets, TLC

(***************************************************************************)
(* Bounds of the model.                                                    *)
(***************************************************************************)
MaxRows == 2
MaxEvents == 2
MaxRuns == 2
MaxEdits == 1
MaxRateLimited == 1
MaxFailures == 1
MaxFaultFailures == 2
MaxRetriesArg == 5

(***************************************************************************)
(* Program constants.                                                      *)
(***************************************************************************)
DefaultMaxRetries == 5
DefaultBaseDelay == 1000
RateLimitStatus == 429
RowWidth == 9
HeaderOffset == 2
TIMEZONE == "America/Detroit"

(***************************************************************************)
(* Errors.  A thrown value is a record; status 0 stands for an error that  *)
(* carries no response (error.response is undefined), as every Error the   *)
(* program itself throws.                                                  *)
(***************************************************************************)
NoError == [message |-> "", status |-> 0]
HttpError(s) == [message |-> "Request failed", status |-> s]
NetworkError == [message |-> "Network error", status |-> 0]
ExceededMaxRetries == [message |-> "Exceeded max retries.", status |-> 0]
SpreadsheetChanged ==
    [message |-> "Spreadsheet required updating but content changed during sync!",
     status |-> 0]
MomentCouldNotParse == [message |-> "Moment could not parse time", status |-> 0]

\* What one attempt of a remote operation can end in.
Ok == [message |-> "ok", status |-> 200]
Failures == {HttpError(429), HttpError(500), NetworkError}

(***************************************************************************)
(* retryWithBackoff, as pure steps.                                        *)
(***************************************************************************)
\* error.response?.status === 429
IsRateLimitedMutant(error) == error.status >= 429
IsRateLimited(error) == error.status = RateLimitStatus

\* for (let attempt = 0; attempt < maxRetries; attempt++)
LoopContinues(attempt, maxRetries) == attempt < maxRetries

\* const delay = baseDelay * Math.pow(2, attempt)
BackoffDelayMutant(baseDelay, attempt) == baseDelay * 2 * attempt
BackoffDelay(baseDelay, attempt) == baseDelay * (2 ^ attempt)

\* The message retryWithBackoff logs before it waits.
RateLimitedMessage(attempt, maxRetries, delay) ==
    "Rate limited. Attempt " \o ToString(attempt + 1) \o "/" \o ToString(maxRetries)
        \o ". Retrying in " \o ToString(delay) \o "ms"

\* One pass through the loop body with the operation ending in `outcome`:
\* what the governor does next, the attempt counter after it, and the wait.
RetryStep(attempt, maxRetries, baseDelay, outcome) ==
    IF outcome = Ok
    THEN [next |-> "return", attempt |-> attempt, waited |-> FALSE, delay |-> 0,
          error |-> NoError]
    ELSE IF IsRateLimited(outcome)
    THEN [next |-> IF LoopContinues(attempt + 1, maxRetries) THEN "retry" ELSE "throw",
          attempt |-> attempt + 1, waited |-> TRUE,
          delay |-> BackoffDelay(baseDelay, attempt),
          error |-> IF LoopContinues(attempt + 1, maxRetries)
                    THEN NoError ELSE ExceededMaxRetries]
    ELSE [next |-> "throw", attempt |-> attempt, waited |-> FALSE, delay |-> 0,
          error |-> outcome]

(***************************************************************************)
(* The Row Store.  The sheet is a sequence of rows of RowWidth cells; an   *)
(* empty cell is "".  Rows are numbered from 1 here; the sheet's own row   *)
(* number of row i is i + 1 (the header holds row 1).                      *)
(***************************************************************************)
EmptyRow == [c \in 1..RowWidth |-> ""]

RECURSIVE TrimCells(_)
\* The API leaves out a row's trailing empty cells.
TrimCells(row) ==
    IF row = <<>> \/ row[Len(row)] # "" THEN row
    ELSE TrimCells(SubSeq(row, 1, Len(row) - 1))

RECURSIVE TrimRows(_)
\* ... and the range's trailing empty rows.
TrimRows(rows) ==
    IF rows = <<>> \/ rows[Len(rows)] # <<>> THEN rows
    ELSE TrimRows(SubSeq(rows, 1, Len(rows) - 1))

\* sheets.spreadsheets.values.get({range: RANGE}): response.data.values
ValuesGet(grid) == TrimRows([i \in 1..Len(grid) |-> TrimCells(grid[i])])

\* getNormalizedSpreadsheet: every row filled up to 9 cells with ""
PadRow(row) == row \o [c \in 1..(RowWidth - Len(row)) |-> ""]
GetNormalizedSpreadsheet(grid) ==
    LET values == ValuesGet(grid) IN [i \in 1..Len(values) |-> PadRow(values[i])]

\* The grid after a write of `value` to column `col` of sheet row `rowIndex`.
PadGrid(grid, n) == grid \o [i \in 1..(n - Len(grid)) |-> EmptyRow]
ValuesUpdate(grid, rowIndex, col, value) ==
    LET r == rowIndex - 1
        wide == PadGrid(grid, r)
    IN  GetNormalizedSpreadsheet([wide EXCEPT ![r][col] = value])

\* isEqual(originalResponse, checkResponse.data.values)
ContentChangedMutant(originalValues, checkValues) ==
    Len(originalValues) # Len(checkValues)
ContentChanged(originalValues, checkValues) == originalValues # checkValues

\* const uuid = row[8] || crypto.randomUUID(): the k-th generated token
RandomUUID(k) == "uuid-" \o ToString(k)
NeedsUuid(row) == row[9] = ""

\* row[k] || "Unknown"
OrUnknown(cell) == IF cell = "" THEN "Unknown" ELSE cell

\* data.push({...}) in getSpreadsheetData
Assignment(row, uuid) ==
    [Origin |-> OrUnknown(row[1]), Name |-> OrUnknown(row[2]),
     DueTime |-> OrUnknown(row[3]), DueDate |-> OrUnknown(row[4]),
     Status |-> OrUnknown(row[5]), Difficulty |-> OrUnknown(row[6]),
     Priority |-> OrUnknown(row[7]), Notes |-> OrUnknown(row[8]),
     UUID |-> uuid]

\* uuidsToBeUpdated.push({ rowIndex: i + 2, uuid }), i counted from 0
RowIndexOfMutant(i) == i
RowIndexOf(i) == (i - 1) + HeaderOffset

(***************************************************************************)
(* Dates.  moment.tz(string, 'L|LTS', TIMEZONE) on the strings the model   *)
(* uses: a wall-clock minute count, or Invalid.  'L' is MM/DD/YYYY read   *)
(* leniently, so "3/1/2025" and "03/01/2025" are the same day.             *)
(***************************************************************************)
Invalid == -1
MinutesPerDay == 1440

ParseL(s) ==
    CASE s = "3/1/2025" -> 1
      [] s = "03/01/2025" -> 1
      [] s = "3/2/2025" -> 2
      [] OTHER -> Invalid

ParseLTS(s) ==
    CASE s = "11:59:00 PM" -> 1439
      [] s = "9:00:00 AM" -> 540
      [] OTHER -> Invalid

MomentParse(dateString, timeString) ==
    IF ParseL(dateString) = Invalid \/ ParseLTS(timeString) = Invalid THEN Invalid
    ELSE ParseL(dateString) * MinutesPerDay + ParseLTS(timeString)

\* The zone's offset from UTC in minutes.
ZoneOffset(zone) == IF zone = "UTC" THEN 0 ELSE -300

\* dueDateAndTime.toISOString(true): the wall time with the zone's offset
ToISOString(wall, zone) == [wall |-> wall, offset |-> ZoneOffset(zone)]

\* moment.tz(dateTime, timeZone).unix(): the offset written in dateTime
\* decides the instant; the zone label does not.
Unix(time) == time.dateTime.wall - time.dateTime.offset

(***************************************************************************)
(* Events.  uuid stands for extendedProperties.private.uuid; an event      *)
(* without one has the key undefined.  A request body has id 0.            *)
(***************************************************************************)
undefined == "undefined"

IsValidDateMutant(assignment) == TRUE
IsValidDate(assignment) ==
    MomentParse(assignment.DueDate, assignment.DueTime) # Invalid

SummaryOf(assignment) ==
    (IF assignment.Status = "2 - Done" THEN "DONE - " ELSE "")
        \o assignment.Origin \o ": " \o assignment.Name

DescriptionOf(assignment) ==
    "Difficulty: " \o assignment.Difficulty \o "\nPriority: " \o assignment.Priority
        \o "\nNotes: " \o assignment.Notes

\* getEventData(assignment), for an assignment whose date parses
GetEventData(assignment) ==
    LET eventDateTime ==
            ToISOString(MomentParse(assignment.DueDate, assignment.DueTime), TIMEZONE)
    IN  [id |-> 0,
         summary |-> SummaryOf(assignment),
         description |-> DescriptionOf(assignment),
         start |-> [dateTime |-> eventDateTime, timeZone |-> TIMEZONE],
         end |-> [dateTime |-> eventDateTime, timeZone |-> TIMEZONE],
         uuid |-> assignment.UUID]

NormalizeEvent(event) ==
    [summary |-> event.summary, description |-> event.description,
     start |-> Unix(event.start), end |-> Unix(event.end)]

EventsAreEqualMutant(event1, event2) ==
    /\ NormalizeEvent(event1) = NormalizeEvent(event2)
    /\ event1.start.timeZone = event2.start.timeZone
EventsAreEqual(event1, event2) == NormalizeEvent(event1) = NormalizeEvent(event2)

(***************************************************************************)
(* existingEventMap: a JavaScript Map, kept as the sequence of its entries *)
(* in insertion order.  Setting a key that is present replaces the value   *)
(* and keeps the entry's place.                                            *)
(***************************************************************************)
MapIndex(map, key) ==
    IF \E n \in 1..Len(map) : map[n].key = key
    THEN CHOOSE n \in 1..Len(map) : map[n].key = key
    ELSE 0

MapSet(map, key, value) ==
    IF MapIndex(map, key) = 0 THEN Append(map, [key |-> key, value |-> value])
    ELSE [map EXCEPT ![MapIndex(map, key)].value = value]

RECURSIVE MapFrom(_, _)
MapFrom(map, items) ==
    IF items = <<>> THEN map
    ELSE MapFrom(MapSet(map, Head(items).uuid, Head(items)), Tail(items))

\* new Map(items.map(event => [event.extendedProperties?.private?.uuid, event]))
ExistingEventMap(items) == MapFrom(<<>>, items)

MapDelete(map, key) ==
    LET n == MapIndex(map, key)
    IN  IF n = 0 THEN map
        ELSE SubSeq(map, 1, n - 1) \o SubSeq(map, n + 1, Len(map))

(***************************************************************************)
(* The Event Store: the calendar's events in listing order.                *)
(***************************************************************************)
EventsInsert(events, id, requestBody) == Append(events, [requestBody EXCEPT !.id = id])

EventsUpdate(events, eventId, requestBody) ==
    [n \in 1..Len(events) |->
        IF events[n].id = eventId THEN [requestBody EXCEPT !.id = eventId]
        ELSE events[n]]

RECURSIVE EventsDelete(_, _)
EventsDelete(events, eventId) ==
    IF events = <<>> THEN <<>>
    ELSE IF Head(events).id = eventId THEN EventsDelete(Tail(events), eventId)
    ELSE <<Head(events)>> \o EventsDelete(Tail(events), eventId)


(***************************************************************************)
(* State.                                                                  *)
(***************************************************************************)
VARIABLES
    sheet,              \* Row Store: the rows of RANGE (A2:I)
    calendar,           \* Event Store: the events of CALENDAR_ID, in listing order
    nextEventId,        \* the id the Event Store gives the next inserted event
    lastSync,           \* LAST_UPDATED_CELL: the run that wrote it last, 0 for none
    logAppended,        \* the rows this run has appended to the Log sheet
    uuidCount,          \* how many tokens crypto.randomUUID() has handed out
    run,                \* the number of process runs started
    pc,                 \* where the run is
    attempt,            \* retryWithBackoff's loop counter in the call under way
    error,              \* the error the top-level handler caught, or NoError
    logMessages,        \* the module's log buffer
    originalValues,     \* getSpreadsheetData: response.data.values (= newValues)
    data,               \* getSpreadsheetData: the assignments
    uuidsToBeUpdated,   \* getSpreadsheetData: the identity writes to make
    idx,                \* the index of the loop under way, from 1
    existingEvents,     \* syncWithCalendar: existingEvents.data.items
    existingEventMap,   \* syncWithCalendar: the identity-keyed index
    calls,              \* history: every remote call attempt of this run
    stale,              \* history: a freshness check read a changed Row Store
    prevData,           \* history: the assignments of the previous run
    prevOk,             \* history: the previous run completed without error
    rateLeft,           \* environment: rate-limit answers still to come
    failLeft,           \* environment: other failures still to come
    editsLeft,          \* environment: edits the other actor may still make
    rMax, rBase, rStatus, rOutcomes, rWaits, rError
                        \* a call of retryWithBackoff on its own: its arguments,
                        \* its state, the outcomes of its attempts and its waits

storeVars == <<sheet, calendar, nextEventId, lastSync, logAppended, uuidCount>>
localVars == <<originalValues, data, uuidsToBeUpdated, idx, existingEvents, existingEventMap>>
historyVars == <<prevData, prevOk>>
envVars == <<rateLeft, failLeft, editsLeft>>
retryVars == <<rMax, rBase, rStatus, rOutcomes, rWaits, rError>>
runVars == <<run, pc, attempt, error, logMessages, calls, stale>>
vars == <<storeVars, localVars, historyVars, envVars, retryVars, runVars>>

NoEvent ==
    [id |-> 0, summary |-> "", description |-> "",
     start |-> [dateTime |-> [wall |-> 0, offset |-> 0], timeZone |-> ""],
     end |-> [dateTime |-> [wall |-> 0, offset |-> 0], timeZone |-> ""],
     uuid |-> undefined]

(***************************************************************************)
(* The inputs: the rows and events the stores start with, and the edits    *)
(* the other actor makes.                                                  *)
(***************************************************************************)
Row(name, dueTime, dueDate, uuid) == <<"", name, dueTime, dueDate, "", "", "", "", uuid>>

RowPool ==
    {Row("Essay", "11:59:00 PM", "3/1/2025", "a"),
     Row("Quiz", "11:59:00 PM", "3/2/2025", "b"),
     Row("Essay", "11:59:00 PM", "3/1/2025", "")}

InUTC(event) ==
    [event EXCEPT
        !.start = [dateTime |-> [wall |-> Unix(event.start), offset |-> 0],
                   timeZone |-> "UTC"],
        !.end = [dateTime |-> [wall |-> Unix(event.end), offset |-> 0],
                 timeZone |-> "UTC"]]

EventPool ==
    {\* the event of the row "a", as the Event Store hands it back in UTC
     InUTC(GetEventData(Assignment(Row("Essay", "11:59:00 PM", "3/1/2025", "a"), "a"))),
     \* an event of the row "b" from before its date was changed
     GetEventData(Assignment(Row("Quiz", "11:59:00 PM", "3/1/2025", "b"), "b")),
     \* an event that is not the program's: no embedded identity
     [NoEvent EXCEPT !.summary = "Dentist",
                     !.start = [dateTime |-> [wall |-> 2000, offset |-> -300],
                                timeZone |-> TIMEZONE],
                     !.end = [dateTime |-> [wall |-> 2060, offset |-> -300],
                              timeZone |-> TIMEZONE]]}

SeqsUpTo(S, n) == UNION {[1..m -> S] : m \in 0..n}

WithIds(events) == [n \in 1..Len(events) |-> [events[n] EXCEPT !.id = n]]

\* The cells the other actor types: a name, or a date.
EditPool == {<<2, "Report">>, <<4, "03/01/2025">>, <<4, "3/2/2025">>}


(***************************************************************************)
(* The initial states: stores filled from the pools, no run started.       *)
(***************************************************************************)
InitRun ==
    /\ lastSync = 0
    /\ logAppended = <<>>
    /\ uuidCount = 0
    /\ run = 0
    /\ pc = "idle"
    /\ attempt = 0
    /\ error = NoError
    /\ logMessages = <<>>
    /\ originalValues = <<>>
    /\ data = <<>>
    /\ uuidsToBeUpdated = <<>>
    /\ idx = 0
    /\ existingEvents = <<>>
    /\ existingEventMap = <<>>
    /\ calls = <<>>
    /\ stale = FALSE
    /\ prevData = <<>>
    /\ prevOk = FALSE

InitRetryIdle ==
    /\ rMax = 0
    /\ rBase = 0
    /\ rStatus = "idle"
    /\ rOutcomes = <<>>
    /\ rWaits = <<>>
    /\ rError = NoError

Init ==
    /\ sheet \in SeqsUpTo(RowPool, MaxRows)
    /\ calendar \in {WithIds(events) : events \in SeqsUpTo(EventPool, MaxEvents)}
    /\ nextEventId = Len(calendar) + 1
    /\ rateLeft = MaxRateLimited
    /\ failLeft = MaxFailures
    /\ editsLeft = MaxEdits
    /\ InitRun
    /\ InitRetryIdle

(***************************************************************************)
(* The environment's answers to one attempt of a remote call.              *)
(***************************************************************************)
\* The value of rateLeft for an environment that may answer with the
\* rate-limit signal at every attempt.
Unlimited == -1

EnvOutcomes ==
    {Ok} \cup {f \in {HttpError(429)} : rateLeft # 0}
         \cup {f \in {HttpError(500)} : failLeft > 0}

Spend(outcome) ==
    /\ rateLeft' = IF outcome = HttpError(429) /\ rateLeft > 0
                   THEN rateLeft - 1 ELSE rateLeft
    /\ failLeft' = IF outcome \notin {Ok, HttpError(429)} THEN failLeft - 1 ELSE failLeft
    /\ UNCHANGED editsLeft

Call(op, target, uuid, payload) ==
    [op |-> op, target |-> target, uuid |-> uuid, payload |-> payload,
     outcome |-> 0,
     \* the loop index of the run at the call
     idx |-> idx,
     \* history: the rows the run's first read returned
     values |-> <<>>,
     \* history: the Row Store holds what the run's snapshot holds
     fresh |-> GetNormalizedSpreadsheet(sheet) = originalValues,
     \* history: an earlier freshness check of the run read a changed Row Store
     afterStale |-> stale]

Record(call, outcome) == calls' = Append(calls, [call EXCEPT !.outcome = outcome.status])

(***************************************************************************)
(* How an error leaves the code that raised it.                            *)
(***************************************************************************)
\* logError('Error:', error.response?.data || error)
ErrorMessage(e) == "ERROR: Error: " \o e.message

\* } catch (error) { logError(...); try { ... : the top-level handler
MainCatchResumes(log, e) ==
    /\ pc' = "list"
    /\ logMessages' = Append(log, "ERROR: Error: " \o e.message)
    /\ error' = e
MainCatchHangs(log, e) ==
    /\ pc' = "hung"
    /\ logMessages' = log
    /\ error' = e
MainCatchMutant(log, e) ==
    /\ pc' = pc
    /\ logMessages' = log
    /\ UNCHANGED error
MainCatch(log, e) ==
    /\ pc' = "handlerAuthorize"
    /\ logMessages' = Append(log, ErrorMessage(e))
    /\ error' = e

\* } catch (logError) { console.error(...) } : the handler's own try
InnerCatchMutant(log, e) ==
    /\ pc' = "crashed"
    /\ logMessages' = log
    /\ error' = e
InnerCatch(log, e) ==
    /\ pc' = "done"
    /\ logMessages' = log
    /\ UNCHANGED error

(***************************************************************************)
(* One attempt of `await retryWithBackoff(() => operation)` with the       *)
(* default arguments: the operation ends in `outcome`.  Returned is what   *)
(* follows the call when it returns; Thrown is where an error goes.        *)
(***************************************************************************)
Governed(outcome, call, Returned, Thrown(_, _)) ==
    LET r == RetryStep(attempt, DefaultMaxRetries, DefaultBaseDelay, outcome)
        logged ==
            IF r.waited
            THEN Append(logMessages,
                        RateLimitedMessage(attempt, DefaultMaxRetries, r.delay))
            ELSE logMessages
    IN  /\ Spend(outcome)
        /\ Record(call, outcome)
        /\ UNCHANGED <<run, historyVars, retryVars>>
        /\ CASE r.next = "return" -> attempt' = 0 /\ Returned
             [] r.next = "retry" ->
                    /\ attempt' = r.attempt
                    /\ logMessages' = logged
                    /\ UNCHANGED <<pc, error, storeVars, localVars, stale>>
             [] r.next = "throw" ->
                    /\ attempt' = 0
                    /\ Thrown(logged, r.error)
                    /\ UNCHANGED <<storeVars, localVars, stale>>

\* A step of the run that makes no remote call.
Local == UNCHANGED <<run, attempt, calls, historyVars, retryVars, envVars>>


(***************************************************************************)
(* The run: syncWithCalendar, one action per remote call attempt or local  *)
(* loop step.                                                              *)
(***************************************************************************)
\* The process starts: the script calls syncWithCalendar() once.
StartRun ==
    /\ pc \in {"idle", "done"}
    /\ run < MaxRuns
    /\ run' = run + 1
    /\ pc' = "authorize"
    /\ prevOk' = (pc = "done" /\ error = NoError)
    /\ prevData' = IF pc = "done" /\ error = NoError THEN data ELSE <<>>
    /\ attempt' = 0
    /\ error' = NoError
    /\ logMessages' = <<>>
    /\ logAppended' = <<>>
    /\ originalValues' = <<>>
    /\ data' = <<>>
    /\ uuidsToBeUpdated' = <<>>
    /\ idx' = 0
    /\ existingEvents' = <<>>
    /\ existingEventMap' = <<>>
    /\ calls' = <<>>
    /\ stale' = FALSE
    /\ UNCHANGED <<sheet, calendar, nextEventId, lastSync, uuidCount, envVars, retryVars>>

\* const auth = await authorize()
Authorize ==
    /\ pc = "authorize"
    /\ \E outcome \in EnvOutcomes \ {HttpError(429)} :
        /\ Spend(outcome)
        /\ Record(Call("authorize", 0, "", NoEvent), outcome)
        /\ IF outcome = Ok
           THEN pc' = "read" /\ UNCHANGED <<error, logMessages>>
           ELSE MainCatch(logMessages, outcome)
    /\ UNCHANGED <<run, attempt, storeVars, localVars, stale, historyVars, retryVars>>

\* Where the first loop of getSpreadsheetData goes after row i - 1.
AfterScanPc(values, i, pending) ==
    IF i <= Len(values) THEN "scan" ELSE IF pending # <<>> THEN "check" ELSE "list"
AfterScanIdx(values, i) == IF i <= Len(values) THEN i ELSE 1

\* const response = await retryWithBackoff(() => getNormalizedSpreadsheet(sheets))
ReadSpreadsheet ==
    /\ pc = "read"
    /\ \E outcome \in EnvOutcomes :
        Governed(outcome,
            [Call("values.get", 0, "", NoEvent) EXCEPT
                !.values = IF outcome = Ok THEN GetNormalizedSpreadsheet(sheet) ELSE <<>>],
            /\ originalValues' = GetNormalizedSpreadsheet(sheet)
            /\ pc' = AfterScanPc(originalValues', 1, <<>>)
            /\ idx' = 1
            /\ UNCHANGED <<data, uuidsToBeUpdated, existingEvents, existingEventMap, storeVars,
                           error, logMessages, stale>>,
            MainCatch)

\* First loop, a row that has its identity: data.push({..., UUID: row[8]})
ScanRow ==
    /\ pc = "scan"
    /\ ~NeedsUuid(originalValues[idx])
    /\ data' = Append(data, Assignment(originalValues[idx], originalValues[idx][9]))
    /\ pc' = AfterScanPc(originalValues, idx + 1, uuidsToBeUpdated)
    /\ idx' = AfterScanIdx(originalValues, idx + 1)
    /\ UNCHANGED <<originalValues, uuidsToBeUpdated, existingEvents, existingEventMap, storeVars,
                   error, logMessages, stale>>
    /\ Local

\* throwIfSpreadsheetChanged(originalValues, sheets) after its read returned:
\* Unchanged is what follows when the content is the same.
ThrowIfSpreadsheetChanged(Unchanged) ==
    /\ stale' = (stale \/ GetNormalizedSpreadsheet(sheet) # originalValues)
    /\ IF ContentChanged(originalValues, GetNormalizedSpreadsheet(sheet))
       THEN /\ MainCatch(logMessages, SpreadsheetChanged)
            /\ UNCHANGED <<storeVars, localVars>>
       ELSE /\ Unchanged
            /\ UNCHANGED <<error, logMessages>>

\* First loop, a row without identity: the freshness check, then
\* uuidsToBeUpdated.push({ rowIndex: i + 2, uuid }) and data.push
ScanCheck ==
    /\ pc = "scan"
    /\ NeedsUuid(originalValues[idx])
    /\ \E outcome \in EnvOutcomes :
        Governed(outcome, Call("values.get", 0, "", NoEvent),
            ThrowIfSpreadsheetChanged(
                /\ uuidCount' = uuidCount + 1
                /\ uuidsToBeUpdated' =
                       Append(uuidsToBeUpdated,
                              [rowIndex |-> RowIndexOf(idx),
                               uuid |-> RandomUUID(uuidCount + 1)])
                /\ data' = Append(data, Assignment(originalValues[idx],
                                                   RandomUUID(uuidCount + 1)))
                /\ pc' = AfterScanPc(originalValues, idx + 1, uuidsToBeUpdated')
                /\ idx' = AfterScanIdx(originalValues, idx + 1)
                /\ UNCHANGED <<originalValues, existingEvents, existingEventMap, sheet, calendar,
                               nextEventId, lastSync, logAppended>>),
            MainCatch)

\* Second loop: await throwIfSpreadsheetChanged(originalValues, sheets)
WriteCheck ==
    /\ pc = "check"
    /\ \E outcome \in EnvOutcomes :
        Governed(outcome, Call("values.get", 0, "", NoEvent),
            ThrowIfSpreadsheetChanged(
                /\ pc' = "update"
                /\ UNCHANGED <<storeVars, localVars>>),
            MainCatch)

\* newValues[rowIndex-2][8] = uuid, with const newValues = originalValues: the
\* same array, so the snapshot the checks compare against takes the identity
NewValuesMutant(values, rowIndex, uuid) == values
NewValues(values, rowIndex, uuid) ==
    [values EXCEPT ![rowIndex - HeaderOffset + 1][9] = uuid]

\* Second loop: the write of the identity cell, then newValues[rowIndex-2][8] = uuid
WriteUuid ==
    /\ pc = "update"
    /\ \E outcome \in EnvOutcomes :
        LET w == uuidsToBeUpdated[idx] IN
        Governed(outcome, Call("values.update", w.rowIndex, w.uuid, NoEvent),
            /\ sheet' = ValuesUpdate(sheet, w.rowIndex, 9, w.uuid)
            /\ originalValues' = NewValues(originalValues, w.rowIndex, w.uuid)
            /\ idx' = idx + 1
            /\ pc' = IF idx + 1 <= Len(uuidsToBeUpdated) THEN "check" ELSE "list"
            /\ UNCHANGED <<data, uuidsToBeUpdated, existingEvents, existingEventMap, calendar,
                           nextEventId, lastSync, logAppended, uuidCount,
                           error, logMessages, stale>>,
            MainCatch)

\* Where the loop over the assignments goes after assignment k - 1.
AfterTaskPc(k, map) ==
    IF k <= Len(data) THEN "tasks" ELSE IF map # <<>> THEN "deletes" ELSE "lastSync"
AfterTaskIdxMutant(k) == 1
AfterTaskIdx(k) == IF k <= Len(data) THEN k ELSE 1

\* const existingEvents = await retryWithBackoff(() => calendar.events.list(...))
\* and the Map built from them
ListEvents ==
    /\ pc = "list"
    /\ \E outcome \in EnvOutcomes :
        Governed(outcome, Call("events.list", 0, "", NoEvent),
            /\ existingEvents' = calendar
            /\ existingEventMap' = ExistingEventMap(existingEvents')
            /\ pc' = AfterTaskPc(1, existingEventMap')
            /\ idx' = 1
            /\ UNCHANGED <<originalValues, data, uuidsToBeUpdated, storeVars,
                           error, logMessages, stale>>,
            MainCatch)

\* existingEventMap.get(assignment.UUID), as an index into the entries
Existing(assignment) == MapIndex(existingEventMap, assignment.UUID)

\* getEventData throws: the date does not parse
TaskParseFails ==
    /\ pc = "tasks"
    /\ ~IsValidDate(data[idx])
    /\ MainCatch(logMessages, MomentCouldNotParse)
    /\ UNCHANGED <<storeVars, localVars, stale>>
    /\ Local

\* if (existingEvent) and eventsAreEqual: only existingEventMap.delete
TaskUnchanged ==
    /\ pc = "tasks"
    /\ IsValidDate(data[idx])
    /\ Existing(data[idx]) # 0
    /\ EventsAreEqual(existingEventMap[Existing(data[idx])].value, GetEventData(data[idx]))
    /\ existingEventMap' = MapDelete(existingEventMap, data[idx].UUID)
    /\ pc' = AfterTaskPc(idx + 1, existingEventMap')
    /\ idx' = AfterTaskIdx(idx + 1)
    /\ UNCHANGED <<originalValues, data, uuidsToBeUpdated, existingEvents, storeVars,
                   error, logMessages, stale>>
    /\ Local

\* The request body of calendar.events.update
UpdateBodyMutant(eventData, existingEvent) ==
    [existingEvent EXCEPT !.summary = eventData.summary, !.id = 0]
UpdateBody(eventData, existingEvent) == eventData

\* if (existingEvent) and not eventsAreEqual: calendar.events.update
TaskUpdate ==
    /\ pc = "tasks"
    /\ IsValidDate(data[idx])
    /\ Existing(data[idx]) # 0
    /\ ~EventsAreEqual(existingEventMap[Existing(data[idx])].value, GetEventData(data[idx]))
    /\ \E outcome \in EnvOutcomes :
        LET eventData == GetEventData(data[idx])
            existingEvent == existingEventMap[Existing(data[idx])].value
            requestBody == UpdateBody(eventData, existingEvent)
        IN
        Governed(outcome, Call("events.update", existingEvent.id, eventData.uuid, requestBody),
            /\ calendar' = EventsUpdate(calendar, existingEvent.id, requestBody)
            /\ logMessages' = Append(logMessages, "Updated event: " \o eventData.summary)
            /\ existingEventMap' = MapDelete(existingEventMap, data[idx].UUID)
            /\ pc' = AfterTaskPc(idx + 1, existingEventMap')
            /\ idx' = AfterTaskIdx(idx + 1)
            /\ UNCHANGED <<originalValues, data, uuidsToBeUpdated, existingEvents, sheet, nextEventId,
                           lastSync, logAppended, uuidCount, error, stale>>,
            MainCatch)

\* else: calendar.events.insert
TaskInsert ==
    /\ pc = "tasks"
    /\ IsValidDate(data[idx])
    /\ Existing(data[idx]) = 0
    /\ \E outcome \in EnvOutcomes :
        LET eventData == GetEventData(data[idx]) IN
        Governed(outcome, Call("events.insert", 0, eventData.uuid, eventData),
            /\ calendar' = EventsInsert(calendar, nextEventId, eventData)
            /\ nextEventId' = nextEventId + 1
            /\ logMessages' = Append(logMessages, "Created event: " \o eventData.summary)
            /\ pc' = AfterTaskPc(idx + 1, existingEventMap)
            /\ idx' = AfterTaskIdx(idx + 1)
            /\ UNCHANGED <<originalValues, data, uuidsToBeUpdated, existingEvents,
                           existingEventMap, sheet, lastSync, logAppended, uuidCount, error, stale>>,
            MainCatch)

\* for (const [_, event] of existingEventMap): calendar.events.delete
DeleteRemaining ==
    /\ pc = "deletes"
    /\ \E outcome \in EnvOutcomes :
        LET event == existingEventMap[idx].value IN
        Governed(outcome, Call("events.delete", event.id, event.uuid, NoEvent),
            /\ calendar' = EventsDelete(calendar, event.id)
            /\ logMessages' = Append(logMessages, "Deleted event: " \o event.summary)
            /\ idx' = idx + 1
            /\ pc' = IF idx + 1 <= Len(existingEventMap) THEN "deletes" ELSE "lastSync"
            /\ UNCHANGED <<originalValues, data, uuidsToBeUpdated, existingEvents,
                           existingEventMap, sheet, nextEventId, lastSync, logAppended, uuidCount,
                           error, stale>>,
            MainCatch)

\* await updateLastSyncTime(sheets)
UpdateLastSyncTime ==
    /\ pc = "lastSync"
    /\ \E outcome \in EnvOutcomes :
        Governed(outcome, Call("values.update", 1, "", NoEvent),
            /\ lastSync' = run
            /\ pc' = "flush"
            /\ UNCHANGED <<sheet, calendar, nextEventId, logAppended, uuidCount,
                           localVars, error, logMessages, stale>>,
            MainCatch)

\* appendToLog: if (logMessages.length === 0) return
AppendNothing ==
    /\ pc = "flush"
    /\ logMessages = <<>>
    /\ pc' = "done"
    /\ UNCHANGED <<storeVars, localVars, error, logMessages, stale>>
    /\ Local

\* appendToLog: the append of the buffer to the Log sheet
AppendToLog ==
    /\ pc = "flush"
    /\ logMessages # <<>>
    /\ \E outcome \in EnvOutcomes :
        Governed(outcome, Call("values.append", 0, "", NoEvent),
            /\ logAppended' = logAppended \o logMessages
            /\ pc' = "done"
            /\ UNCHANGED <<sheet, calendar, nextEventId, lastSync, uuidCount,
                           localVars, error, logMessages, stale>>,
            MainCatch)

\* In the handler: const auth = await authorize()
HandlerAuthorize ==
    /\ pc = "handlerAuthorize"
    /\ \E outcome \in EnvOutcomes \ {HttpError(429)} :
        /\ Spend(outcome)
        /\ Record(Call("authorize", 0, "", NoEvent), outcome)
        /\ IF outcome = Ok
           THEN pc' = "handlerFlush" /\ UNCHANGED <<error, logMessages>>
           ELSE InnerCatch(logMessages, outcome)
    /\ UNCHANGED <<run, attempt, storeVars, localVars, stale, historyVars, retryVars>>

\* In the handler: await appendToLog(auth); the buffer holds the error
HandlerAppendToLog ==
    /\ pc = "handlerFlush"
    /\ \E outcome \in EnvOutcomes :
        Governed(outcome, Call("values.append", 0, "", NoEvent),
            /\ logAppended' = logAppended \o logMessages
            /\ pc' = "done"
            /\ UNCHANGED <<sheet, calendar, nextEventId, lastSync, uuidCount,
                           localVars, error, logMessages, stale>>,
            InnerCatch)

(***************************************************************************)
(* The other actor at the Row Store.                                       *)
(***************************************************************************)
\* The run reads the rows from its first read to its last identity write, and
\* no later: an edit made later in a run is seen by the next run at the
\* earliest, and is taken here as made before that run's first read.
CanEdit == editsLeft > 0 /\ pc \in {"read", "scan", "check", "update"}

Edited ==
    /\ editsLeft' = editsLeft - 1
    /\ UNCHANGED <<calendar, nextEventId, lastSync, logAppended, uuidCount, localVars,
                   historyVars, retryVars, runVars, rateLeft, failLeft>>

OtherActorTypes ==
    /\ CanEdit
    /\ \E i \in 1..Len(sheet), e \in EditPool :
        /\ sheet[i][e[1]] # e[2]
        /\ sheet' = [sheet EXCEPT ![i][e[1]] = e[2]]
    /\ Edited

OtherActorDeletesRow ==
    /\ CanEdit
    /\ \E i \in 1..Len(sheet) :
        sheet' = GetNormalizedSpreadsheet(
                    SubSeq(sheet, 1, i - 1) \o SubSeq(sheet, i + 1, Len(sheet)))
    /\ Edited

Next ==
    \/ StartRun
    \/ Authorize
    \/ ReadSpreadsheet
    \/ ScanRow
    \/ ScanCheck
    \/ WriteCheck
    \/ WriteUuid
    \/ ListEvents
    \/ TaskParseFails
    \/ TaskUnchanged
    \/ TaskUpdate
    \/ TaskInsert
    \/ DeleteRemaining
    \/ UpdateLastSyncTime
    \/ AppendNothing
    \/ AppendToLog
    \/ HandlerAuthorize
    \/ HandlerAppendToLog
    \/ OtherActorTypes
    \/ OtherActorDeletesRow

Spec == Init /\ [][Next]_vars

(***************************************************************************)
(* The same runs from two small Row Stores, with an environment that can   *)
(* fail twice: once in the run and once more in its handler.               *)
(***************************************************************************)
FaultSheets ==
    {<<Row("Essay", "11:59:00 PM", "3/1/2025", ""),
       Row("Quiz", "11:59:00 PM", "3/2/2025", "b")>>,
     <<Row("Essay", "11:59:00 PM", "3/1/2025", "a"),
       Row("Quiz", "11:59:00 PM", "", "b")>>}

FaultCalendars ==
    {WithIds(events) :
        events \in {e \in SeqsUpTo(EventPool, MaxEvents) :
                        Len(e) = MaxEvents /\ \A j, k \in 1..Len(e) : e[j] = e[k] => j = k}}

InitFaults ==
    /\ sheet \in FaultSheets
    /\ calendar \in FaultCalendars
    /\ nextEventId = Len(calendar) + 1
    /\ rateLeft = MaxRateLimited
    /\ failLeft = MaxFaultFailures
    /\ editsLeft = MaxEdits
    /\ InitRun
    /\ InitRetryIdle

SpecFaults == InitFaults /\ [][Next]_vars

(***************************************************************************)
(* One run to its end, under the scheduling of the process: a remote call  *)
(* that is awaited returns and a sleep ends, so the step the run is at is  *)
(* taken.  The first two worlds are one unchanged task and two new tasks   *)
(* under an environment that may rate-limit every attempt; the others are  *)
(* those of SpecFaults with the budgets of Spec.                           *)
(***************************************************************************)
LiveWorlds ==
    {[sheet |-> <<Row("Essay", "11:59:00 PM", "3/1/2025", "a")>>,
      calendar |-> WithIds(<<InUTC(GetEventData(Assignment(
                        Row("Essay", "11:59:00 PM", "3/1/2025", "a"), "a")))>>),
      rate |-> Unlimited, fail |-> 0, edits |-> 0],
     [sheet |-> <<Row("Essay", "11:59:00 PM", "3/1/2025", "a"),
                  Row("Quiz", "11:59:00 PM", "3/2/2025", "b")>>,
      calendar |-> <<>>,
      rate |-> Unlimited, fail |-> 0, edits |-> 0]}
    \cup {[sheet |-> s, calendar |-> c,
           rate |-> MaxRateLimited, fail |-> MaxFailures, edits |-> MaxEdits] :
            s \in FaultSheets, c \in FaultCalendars}

InitLive ==
    /\ \E w \in LiveWorlds :
        /\ sheet = w.sheet
        /\ calendar = w.calendar
        /\ rateLeft = w.rate
        /\ failLeft = w.fail
        /\ editsLeft = w.edits
    /\ nextEventId = Len(calendar) + 1
    /\ lastSync = 0
    /\ logAppended = <<>>
    /\ uuidCount = 0
    /\ run = MaxRuns - 1
    /\ pc = "idle"
    /\ attempt = 0
    /\ error = NoError
    /\ logMessages = <<>>
    /\ originalValues = <<>>
    /\ data = <<>>
    /\ uuidsToBeUpdated = <<>>
    /\ idx = 0
    /\ existingEvents = <<>>
    /\ existingEventMap = <<>>
    /\ calls = <<>>
    /\ stale = FALSE
    /\ prevData = <<>>
    /\ prevOk = FALSE
    /\ InitRetryIdle

\* The steps of the run itself.
RunNext ==
    \/ Authorize
    \/ ReadSpreadsheet
    \/ ScanRow
    \/ ScanCheck
    \/ WriteCheck
    \/ WriteUuid
    \/ ListEvents
    \/ TaskParseFails
    \/ TaskUnchanged
    \/ TaskUpdate
    \/ TaskInsert
    \/ DeleteRemaining
    \/ UpdateLastSyncTime
    \/ AppendNothing
    \/ AppendToLog
    \/ HandlerAuthorize
    \/ HandlerAppendToLog

SpecLive == InitLive /\ [][Next]_vars /\ WF_vars(RunNext)

(***************************************************************************)
(* retryWithBackoff(operation, maxRetries, baseDelay) on its own, for any  *)
(* arguments and any sequence of outcomes of the operation.                *)
(***************************************************************************)
BaseDelays == {1, 250, DefaultBaseDelay}

InitRetry ==
    /\ rMax \in 0..MaxRetriesArg
    /\ rBase \in BaseDelays
    /\ rStatus = "called"
    /\ rOutcomes = <<>>
    /\ rWaits = <<>>
    /\ rError = NoError
    /\ sheet = <<>>
    /\ calendar = <<>>
    /\ nextEventId = 1
    /\ rateLeft = 0
    /\ failLeft = 0
    /\ editsLeft = 0
    /\ InitRun

\* The call enters the loop: its first test of attempt < maxRetries.
RetryEnter ==
    /\ rStatus = "called"
    /\ rStatus' = IF LoopContinues(attempt, rMax) THEN "running" ELSE "thrown"
    /\ rError' = IF LoopContinues(attempt, rMax) THEN NoError ELSE ExceededMaxRetries
    /\ UNCHANGED <<rMax, rBase, rOutcomes, rWaits, attempt>>
    /\ UNCHANGED <<storeVars, localVars, historyVars, envVars,
                   run, pc, error, logMessages, calls, stale>>

\* One attempt of the operation and what the governor does with its outcome.
RetryAttempt ==
    /\ rStatus = "running"
    /\ \E outcome \in {Ok} \cup Failures :
        LET r == RetryStep(attempt, rMax, rBase, outcome) IN
        /\ rOutcomes' = Append(rOutcomes, outcome)
        /\ rWaits' = IF r.waited THEN Append(rWaits, r.delay) ELSE rWaits
        /\ attempt' = r.attempt
        /\ rStatus' = CASE r.next = "return" -> "returned"
                         [] r.next = "retry" -> "running"
                         [] r.next = "throw" -> "thrown"
        /\ rError' = r.error
    /\ UNCHANGED <<rMax, rBase>>
    /\ UNCHANGED <<storeVars, localVars, historyVars, envVars,
                   run, pc, error, logMessages, calls, stale>>

NextRetry == RetryEnter \/ RetryAttempt

SpecRetry == InitRetry /\ [][NextRetry]_vars


(***************************************************************************)
(* What the claims speak of.                                               *)
(***************************************************************************)
\* The run ended without an error reaching the top-level handler.
Completed == pc = "done" /\ error = NoError

IdentitiesOf(tasks) == {tasks[k].UUID : k \in 1..Len(tasks)}

DistinctIdentities(tasks) ==
    \A j, k \in 1..Len(tasks) : tasks[j].UUID = tasks[k].UUID => j = k

\* The attempts of the run at the operations `ops`, and those that returned.
Attempts(ops) == {c \in 1..Len(calls) : calls[c].op \in ops}
Returns(ops) == {c \in Attempts(ops) : calls[c].outcome = Ok.status}

EventWrites == {"events.insert", "events.update", "events.delete"}

\* The identity cell writes of the run: values.update of a cell of column I.
IdentityWrites == {c \in Attempts({"values.update"}) : calls[c].uuid # ""}

EventsCarrying(events, u) == {n \in 1..Len(events) : events[n].uuid = u}

\* The Event Store mirrors the tasks.
Mirrors(tasks, events) ==
    /\ \A k \in 1..Len(tasks) :
        /\ Cardinality(EventsCarrying(events, tasks[k].UUID)) = 1
        /\ \A n \in EventsCarrying(events, tasks[k].UUID) :
            EventsAreEqual(events[n], GetEventData(tasks[k]))
    /\ \A n \in 1..Len(events) :
        events[n].uuid # undefined => events[n].uuid \in IdentitiesOf(tasks)

\* C1: after a run that completes without error, from any Event Store and
\* rows with pairwise distinct identities, the Event Store mirrors the table:
\* exactly one event per task, equal to its projection, and no event with an
\* identity that no task has.
C1_SyncMirrorsTable ==
    (Completed /\ DistinctIdentities(data)) => Mirrors(data, calendar)

\* C2: a second run over the same tasks, after a run that completed, with
\* the stores left alone in between, makes no create, update or delete call.
C2_SecondRunMakesNoCall ==
    (Completed /\ prevOk /\ data = prevData /\ DistinctIdentities(data))
        => Attempts(EventWrites) = {}

\* C3: an event without embedded identity is never put in the index and is
\* never updated or deleted.
C3_IdentitylessNeverTouched ==
    /\ \A n \in 1..Len(existingEventMap) : existingEventMap[n].key # undefined
    /\ \A c \in Attempts({"events.update", "events.delete"}) :
        \A n \in 1..Len(existingEvents) :
            existingEvents[n].id = calls[c].target => existingEvents[n].uuid # undefined

\* The events a run found whose identity no task has.
Orphans ==
    {existingEvents[n].id :
        n \in {n \in 1..Len(existingEvents) :
                /\ existingEvents[n].uuid # undefined
                /\ existingEvents[n].uuid \notin IdentitiesOf(data)}}

\* C4: a run that completes deletes exactly the events whose identity no
\* task has, each with one delete call.
C4_DeletesExactlyOrphans ==
    Completed =>
        /\ {calls[c].target : c \in Returns({"events.delete"})} = Orphans
        /\ Cardinality(Returns({"events.delete"})) = Cardinality(Orphans)

\* Task k of this run is a task of the previous run with another Name or
\* another due date: the day its Due Date cell denotes.
NameOrDueDateEdited(k) ==
    \E j \in 1..Len(prevData) :
        /\ prevData[j].UUID = data[k].UUID
        /\ \/ prevData[j].Name # data[k].Name
           \/ ParseL(prevData[j].DueDate) # ParseL(data[k].DueDate)

\* One update, sent to an event that carries the task's identity, with the
\* whole projection as its body; no create and no delete for that identity.
UpdatedInPlace(k) ==
    LET u == data[k].UUID
        updates == {c \in Returns({"events.update"}) : calls[c].uuid = u}
    IN  /\ Cardinality(updates) = 1
        /\ \A c \in updates :
            /\ \E n \in EventsCarrying(existingEvents, u) :
                existingEvents[n].id = calls[c].target
            /\ calls[c].payload = GetEventData(data[k])
        /\ \A c \in Attempts({"events.insert", "events.delete"}) : calls[c].uuid # u

AfterEdit(k) ==
    /\ Completed /\ prevOk
    /\ DistinctIdentities(data) /\ DistinctIdentities(prevData)
    /\ k \in 1..Len(data)
    /\ NameOrDueDateEdited(k)
    /\ EventsCarrying(existingEvents, data[k].UUID) # {}

\* C5: a task with an event whose Name or due date was edited gets exactly
\* one update in the next run, sent to the id of the event that carries its
\* identity, with the whole projection as payload, and no create or delete
\* is made for that identity.
C5_EditUpdatesInPlace ==
    \A k \in 1..Len(data) : AfterEdit(k) => UpdatedInPlace(k)

C5_Witness ==
    \E k \in 1..Len(data) : AfterEdit(k) /\ UpdatedInPlace(k)

\* C6: when a freshness check reads a Row Store that differs from the run's
\* snapshot, the run aborts with the concurrent-modification error and makes
\* no identity cell write after that check.
C6_StaleCheckAborts ==
    /\ stale => (error = SpreadsheetChanged
                    /\ pc \in {"handlerAuthorize", "handlerFlush", "done"})
    /\ \A c \in IdentityWrites : ~calls[c].afterStale

C6_Witness ==
    /\ stale
    /\ pc = "done"
    /\ \E c \in IdentityWrites : calls[c].outcome = Ok.status

\* C7: every identity cell write lands on a Row Store that holds, at the
\* moment of the write, what the run's snapshot (with its own earlier
\* identity writes) holds.
C7_NoWriteOnChangedSheet ==
    \A c \in IdentityWrites : calls[c].fresh


RateLimitedOutcomes == {k \in 1..Len(rOutcomes) : rOutcomes[k] = HttpError(429)}
OnlyRateLimited == RateLimitedOutcomes = 1..Len(rOutcomes)

\* C8: after n rate-limit failures in a row and a success, n < maxRetries,
\* n + 1 attempts were made and the result is returned; the wait after the
\* k-th failure (k from 0) is baseDelay * 2^k; after maxRetries rate-limit
\* failures in a row no further attempt is made and the retry-exhausted
\* error is raised.
C8_BackoffBound ==
    /\ Len(rOutcomes) <= rMax
    /\ Len(rWaits) = Cardinality(RateLimitedOutcomes)
    /\ \A k \in 1..Len(rWaits) : rWaits[k] = rBase * (2 ^ (k - 1))
    /\ rStatus = "returned" =>
        /\ rOutcomes[Len(rOutcomes)] = Ok
        /\ RateLimitedOutcomes = 1..(Len(rOutcomes) - 1)
        /\ Cardinality(RateLimitedOutcomes) < rMax
        /\ rError = NoError
    /\ (OnlyRateLimited /\ Len(rOutcomes) < rMax) => rStatus \in {"called", "running"}
    /\ (OnlyRateLimited /\ Len(rOutcomes) = rMax /\ rStatus # "called") =>
        (rStatus = "thrown" /\ rError = ExceededMaxRetries)

C8_Witness ==
    /\ rMax = DefaultMaxRetries
    /\ rBase = DefaultBaseDelay
    /\ rStatus = "returned"
    /\ Cardinality(RateLimitedOutcomes) = DefaultMaxRetries - 1
    /\ rWaits = <<1000, 2000, 4000, 8000>>

\* C9: a failure that is not the rate-limit signal is thrown to the caller
\* as it is, with no wait and no further attempt after it.
C9_OtherFailurePropagates ==
    \A k \in 1..Len(rOutcomes) :
        rOutcomes[k] \notin {Ok, HttpError(429)} =>
            /\ k = Len(rOutcomes)
            /\ rStatus = "thrown"
            /\ rError = rOutcomes[k]
            /\ Len(rWaits) = k - 1

C9_Witness ==
    /\ rStatus = "thrown"
    /\ rError = HttpError(500)
    /\ Len(rOutcomes) = 3

\* The handler's part of the run's calls: from its call of authorize on.
HandlerCalls ==
    {c \in 1..Len(calls) :
        \E h \in Attempts({"authorize"}) : h > 1 /\ h <= c}

Failed == error # NoError /\ pc \in {"handlerAuthorize", "handlerFlush", "done"}

\* C10: no error leaves syncWithCalendar: a failure at any step is caught by
\* the top-level handler and recorded in the log buffer, the handler then
\* tries once to flush the log (it authorizes once and, with that done,
\* calls appendToLog once), and a failure of that flush is swallowed: the
\* run ends normally.
C10_NoErrorEscapes ==
    /\ pc # "crashed"
    /\ (\E c \in 1..Len(calls) :
            /\ calls[c].outcome \notin {Ok.status, RateLimitStatus}
            /\ c \notin HandlerCalls) => Failed
    /\ Failed => \E k \in 1..Len(logMessages) : logMessages[k] = ErrorMessage(error)
    /\ Failed => Cardinality(Attempts({"authorize"})) <= 2
    /\ (Failed /\ pc = "done") =>
        /\ Cardinality(Attempts({"authorize"})) = 2
        /\ \A c \in HandlerCalls :
            \/ calls[c].op = "authorize" /\ (calls[c].outcome = Ok.status => c < Len(calls))
            \/ /\ calls[c].op = "values.append"
               /\ c < Len(calls) => calls[c].outcome = RateLimitStatus

C10_Witness ==
    /\ Failed /\ pc = "done"
    /\ calls[Len(calls)].op = "values.append"
    /\ calls[Len(calls)].outcome = 500
    /\ logAppended = <<>>


\* Task k has been through the loop over the assignments.
Processed(k) ==
    /\ k \in 1..Len(data)
    /\ \/ pc = "tasks" /\ k < idx
       \/ pc \in {"deletes", "lastSync", "flush"}
       \/ Completed

\* The event the index held for task k when the loop came to it: the last
\* listed event with its identity, unless an earlier task took it.
HasExisting(k) ==
    /\ EventsCarrying(existingEvents, data[k].UUID) # {}
    /\ \A j \in 1..(k - 1) : data[j].UUID # data[k].UUID

ExistingOf(k) ==
    LET map == ExistingEventMap(existingEvents)
    IN  map[MapIndex(map, data[k].UUID)].value

FourFieldsEqual(event1, event2) ==
    /\ event1.summary = event2.summary
    /\ event1.description = event2.description
    /\ Unix(event1.start) = Unix(event2.start)
    /\ Unix(event1.end) = Unix(event2.end)

\* C11: eventsAreEqual looks at summary, description and the resolved start
\* and end instants only: an event is equal to itself under another timezone
\* label or another embedded identity, and a task whose existing event has
\* the four fields of its projection gets no update (and no create).
C11_EqualityExclusions ==
    /\ \A n \in 1..Len(existingEvents) :
        LET e == existingEvents[n] IN
        /\ EventsAreEqual(e, InUTC(e))
        /\ EventsAreEqual(e, [e EXCEPT !.uuid = "other", !.id = 0])
        /\ EventsAreEqual([e EXCEPT !.start.timeZone = "Europe/Paris"], e)
    /\ \A k \in 1..Len(data) :
        (Processed(k) /\ HasExisting(k)) =>
            /\ EventsAreEqual(ExistingOf(k), GetEventData(data[k]))
                    = FourFieldsEqual(ExistingOf(k), GetEventData(data[k]))
            /\ FourFieldsEqual(ExistingOf(k), GetEventData(data[k])) =>
                \A c \in Attempts({"events.update", "events.insert"}) : calls[c].idx # k

C11_Witness ==
    \E k \in 1..Len(data) :
        /\ Completed /\ HasExisting(k)
        /\ ExistingOf(k).start.timeZone # GetEventData(data[k]).start.timeZone
        /\ ExistingOf(k).start.dateTime # GetEventData(data[k]).start.dateTime
        /\ FourFieldsEqual(ExistingOf(k), GetEventData(data[k]))
        /\ Attempts({"events.update"}) = {}


\* C12: whatever the Row Store holds, the tasks getSpreadsheetData builds in
\* one run all have a non-empty identity and no two of them the same one.
C12_IdentitiesNonEmptyUnique ==
    /\ \A k \in 1..Len(data) : data[k].UUID # ""
    /\ DistinctIdentities(data)


\* C13: the task of a row takes its fields by position, Origin, Name,
\* DueDate, DueTime, Status, Difficulty, Priority, Notes from cells 1 to 8
\* ("Unknown" for an empty one) and its identity from cell 9 when that holds
\* one, so that the date-time parsed is cell 3 as the date and cell 4 as the
\* time.
C13_PositionalNormalization ==
    \A k \in 1..Len(data) :
        LET row == originalValues[k] IN
        /\ data[k].Origin = OrUnknown(row[1])
        /\ data[k].Name = OrUnknown(row[2])
        /\ data[k].DueDate = OrUnknown(row[3])
        /\ data[k].DueTime = OrUnknown(row[4])
        /\ data[k].Status = OrUnknown(row[5])
        /\ data[k].Difficulty = OrUnknown(row[6])
        /\ data[k].Priority = OrUnknown(row[7])
        /\ data[k].Notes = OrUnknown(row[8])
        /\ data[k].UUID = row[9] \/ row[9] = ""
        /\ MomentParse(data[k].DueDate, data[k].DueTime)
                = MomentParse(OrUnknown(row[3]), OrUnknown(row[4]))


\* The write of the last-sync timestamp: values.update of LAST_UPDATED_CELL.
LastSyncWrites == {c \in Attempts({"values.update"}) : calls[c].uuid = ""}

\* Attempt c is where its call of retryWithBackoff gave up: the operation
\* failed otherwise than by the rate-limit signal, or by it for the
\* maxRetries-th time in a row.
GaveUpAt(c) ==
    \/ calls[c].outcome \notin {Ok.status, RateLimitStatus}
    \/ /\ calls[c].outcome = RateLimitStatus
       /\ c >= DefaultMaxRetries
       /\ \A d \in (c - DefaultMaxRetries + 1)..c :
            /\ calls[d].outcome = RateLimitStatus
            /\ calls[d].op = calls[c].op /\ calls[d].idx = calls[c].idx

\* The create, update and delete calls that returned, in the order made.
RECURSIVE ReturnedWrites(_)
ReturnedWrites(cs) ==
    IF cs = <<>> THEN <<>>
    ELSE IF Head(cs).op \in EventWrites /\ Head(cs).outcome = Ok.status
         THEN <<Head(cs)>> \o ReturnedWrites(Tail(cs))
         ELSE ReturnedWrites(Tail(cs))

RECURSIVE Inserts(_)
Inserts(cs) ==
    IF cs = <<>> THEN 0
    ELSE (IF Head(cs).op = "events.insert" THEN 1 ELSE 0) + Inserts(Tail(cs))

\* The events after the calls cs are applied to them, inserts taking the
\* ids from `id` on.
RECURSIVE Replay(_, _, _)
Replay(events, cs, id) ==
    IF cs = <<>> THEN events
    ELSE LET c == Head(cs) IN
         CASE c.op = "events.insert" ->
                Replay(EventsInsert(events, id, c.payload), Tail(cs), id + 1)
           [] c.op = "events.update" ->
                Replay(EventsUpdate(events, c.target, c.payload), Tail(cs), id)
           [] c.op = "events.delete" ->
                Replay(EventsDelete(events, c.target), Tail(cs), id)

\* C14: after a create, update or delete call of a run gave up, the run makes
\* no further create, update or delete call and does not write the last-sync
\* timestamp, and the Event Store holds what was listed with the changes the
\* run had applied before.
C14_FailFast ==
    \A c \in Attempts(EventWrites) :
        GaveUpAt(c) =>
            /\ \A d \in Attempts(EventWrites) \cup LastSyncWrites : d <= c
            /\ lastSync # run
            /\ error # NoError
            /\ LET applied == ReturnedWrites(calls)
               IN  calendar = Replay(existingEvents, applied, nextEventId - Inserts(applied))

C14_Witness ==
    /\ pc = "done"
    /\ \E c \in Attempts(EventWrites) :
        GaveUpAt(c) /\ calls[c].idx > 1 /\ calls[c].outcome = RateLimitStatus
    /\ error = ExceededMaxRetries
    /\ ReturnedWrites(calls) # <<>>
    /\ calendar # existingEvents


\* The tasks of the run whose due date and time do not parse.
Unparsable ==
    {k \in 1..Len(data) : MomentParse(data[k].DueDate, data[k].DueTime) = Invalid}

\* C15: when the date of the k-th task does not parse, the run aborts at that
\* task with the parse error: no create or update is made for it or for a
\* later task, no delete is made and the timestamp is not written; the loop
\* does not go past the task.
C15_ParseFailureFatal ==
    /\ \A k \in Unparsable :
        /\ \A c \in Attempts({"events.insert", "events.update"}) : calls[c].idx < k
        /\ Attempts({"events.delete"}) = {}
        /\ LastSyncWrites = {}
        /\ lastSync # run
        /\ pc = "tasks" => idx <= k
        /\ pc \notin {"deletes", "lastSync", "flush"}
        /\ ~Completed
    /\ error = MomentCouldNotParse =>
        /\ pc \in {"handlerAuthorize", "handlerFlush", "done"}
        /\ idx \in Unparsable
        /\ \A k \in Unparsable : idx <= k

C15_Witness ==
    /\ error = MomentCouldNotParse
    /\ pc = "done"
    /\ idx = 2
    /\ Returns({"events.insert"}) # {}
    /\ existingEventMap # <<>>


CreatesAndUpdates == Attempts({"events.insert", "events.update"})

\* C16: in one run every identity cell write comes before the listing of
\* the Event Store, the listing before every create and update, creates and
\* updates come in the order of the tasks and at most one per task (the
\* attempts answered by the rate-limit signal aside), every delete after the
\* last create or update, and the timestamp write after the last delete.
C16_PhaseOrdering ==
    /\ \A w \in IdentityWrites, l \in Attempts({"events.list"}) : w < l
    /\ \A l \in Attempts({"events.list"}), c \in Attempts(EventWrites) : l < c
    /\ \A c \in CreatesAndUpdates :
        /\ calls[c].idx \in 1..Len(data)
        /\ calls[c].uuid = data[calls[c].idx].UUID
    /\ \A c, d \in CreatesAndUpdates :
        c < d => /\ calls[c].idx <= calls[d].idx
                 /\ calls[c].idx = calls[d].idx => calls[c].outcome = RateLimitStatus
    /\ \A c \in CreatesAndUpdates, d \in Attempts({"events.delete"}) : c < d
    /\ \A c \in 1..Len(calls), t \in LastSyncWrites :
        (c \in IdentityWrites \/ calls[c].op \in EventWrites \cup {"events.list"}) => c < t

C16_Witness ==
    /\ Completed
    /\ IdentityWrites # {}
    /\ Cardinality({c \in CreatesAndUpdates : calls[c].outcome = Ok.status}) = 2
    /\ Returns({"events.delete"}) # {}
    /\ lastSync = run


\* No other actor has edited the Row Store.
NoEdit == editsLeft = MaxEdits

BackfillDone == pc \in {"list", "tasks", "deletes", "lastSync", "flush"} \/ Completed

\* C17: with two or more rows without identity and no edit by another actor,
\* no freshness check finds a change (the snapshot holds the identities the
\* run has written), every identity is written, and the run comes to the
\* reconciliation without the concurrent-modification error.
C17_OwnWritesNotMistaken ==
    NoEdit =>
        /\ ~stale
        /\ error # SpreadsheetChanged
        /\ \A c \in IdentityWrites : calls[c].fresh
        /\ BackfillDone =>
            /\ Cardinality(Returns({"values.update"}) \cap IdentityWrites)
                    = Len(uuidsToBeUpdated)
            /\ \A i \in 1..Len(sheet) : sheet[i][9] # ""
            /\ GetNormalizedSpreadsheet(sheet) = originalValues

C17_Witness ==
    /\ NoEdit
    /\ pc = "tasks"
    /\ Len(uuidsToBeUpdated) >= 2
    /\ Cardinality(Attempts({"values.get"})) >= 5


\* C18: a run that aborts with the concurrent-modification error leaves the
\* identity cells it wrote as they are (every write it made is the write of
\* a generated identity to its row, made before the check that failed, and
\* the cell holds it), makes no call to the Event Store and does not write
\* the timestamp.
C18_AbortWithoutRollback ==
    error = SpreadsheetChanged =>
        /\ stale
        /\ \A c \in 1..Len(calls) : calls[c].op \notin EventWrites \cup {"events.list"}
        /\ LastSyncWrites = {}
        /\ lastSync # run
        /\ \A c \in Attempts({"values.update"}) :
            /\ ~calls[c].afterStale
            /\ \E j \in 1..Len(uuidsToBeUpdated) :
                /\ uuidsToBeUpdated[j].rowIndex = calls[c].target
                /\ uuidsToBeUpdated[j].uuid = calls[c].uuid
            /\ \A d \in Returns({"values.update"}) : calls[d].uuid = calls[c].uuid => d >= c
            /\ (calls[c].outcome = Ok.status /\ Len(sheet) = Len(originalValues)) =>
                sheet[calls[c].target - HeaderOffset + 1][9] = calls[c].uuid

C18_Witness ==
    /\ error = SpreadsheetChanged
    /\ pc = "done"
    /\ \E c \in IdentityWrites :
        /\ calls[c].outcome = Ok.status
        /\ sheet[calls[c].target - HeaderOffset + 1][9] = calls[c].uuid
    /\ \E i \in 1..Len(sheet) : sheet[i][9] = ""


\* The rows as the run read them at its start.
FirstRead ==
    LET reads == Returns({"values.get"})
    IN  IF reads = {} THEN <<>>
        ELSE calls[CHOOSE c \in reads : \A d \in reads : c <= d].values

\* The identity cell writes to the cell of row i (row i + 1 of the sheet).
WritesToRow(i) == {c \in IdentityWrites : calls[c].target = i + 1}

\* C19: in a run whose identity backfill completes, a row read without
\* identity gets exactly one identity cell write that returns, to its own
\* row in column I, with the identity of the task built from it, which is
\* the identity in the event created for it; a row read with an identity
\* gets no write and its task carries that identity.
C19_WriteBackConsistent ==
    BackfillDone =>
        /\ Len(data) = Len(FirstRead)
        /\ \A i \in 1..Len(FirstRead) :
            IF FirstRead[i][9] = ""
            THEN /\ Cardinality(WritesToRow(i) \cap Returns({"values.update"})) = 1
                 /\ \A c \in WritesToRow(i) : calls[c].uuid = data[i].UUID
                 /\ data[i].UUID # ""
                 /\ \A c \in Attempts({"events.insert"}) :
                        calls[c].idx = i => calls[c].payload.uuid = data[i].UUID
            ELSE /\ WritesToRow(i) = {}
                 /\ data[i].UUID = FirstRead[i][9]
        /\ \A c \in IdentityWrites : \E i \in 1..Len(FirstRead) : c \in WritesToRow(i)

C19_Witness ==
    /\ Completed
    /\ Len(FirstRead) = 2
    /\ FirstRead[1][9] # ""
    /\ FirstRead[2][9] = ""
    /\ \E c \in Returns({"events.insert"}) :
        calls[c].idx = 2 /\ calls[c].payload.uuid = sheet[2][9]


RateLimitedAttempts == {c \in 1..Len(calls) : calls[c].outcome = RateLimitStatus}

\* C20: every run that has started comes to its end, completed or aborted,
\* whatever the stores hold and however the environment answers, every
\* remote call returning and every sleep ending.
C20_Termination == (pc \notin {"idle", "done"}) ~> (pc = "done")

C20_Witness ==
    /\ pc = "done"
    /\ rateLeft = Unlimited
    /\ error = ExceededMaxRetries
    /\ Cardinality(RateLimitedAttempts) > DefaultMaxRetries


====
